---- MODULE Spec2Model ----
(***************************************************************************)
(* Model of the YouTube transcript service (src/main.py): the module-level *)
(* proxy configuration, the POST /transcript handler with its retry loop,  *)
(* and the GET /health and GET / endpoints.                                *)
(*                                                                         *)
(* Conventions.  A Python string is a sequence of tokens (short strings),  *)
(* so that formatting and joining are computed, not assumed.  An optional  *)
(* value is a sequence of length at most one: <<>> is None, <<v>> is v.    *)
(***************************************************************************)
EXTENDS Integers, Sequences, FiniteSets, TLC

(***************************************************************************)
(* Bounds of the model and constants of the program                        *)
(***************************************************************************)
MaxSegs == 2

max_retries == 3

None == <<>>

Some(v) == <<v>>

\* the handler tasks of Spec (one) and of SpecConc (two concurrent ones)
AllReqs == {"r1", "r2"}

SoloReqs == {"r1"}

VideoIds == {"abc123", "blocked"}

SoloVideoIds == {"blocked"}

\* values of an environment variable: unset, set to the empty string, set
EnvUser == {None, Some(""), Some("user")}

EnvPass == {None, Some(""), Some("secret")}

EnvHost == {None, Some("proxy.example")}

EnvPort == {None, Some("")}

\* texts of upstream segments (token sequences; one is empty, one has a space)
SegTexts == {<<>>, <<"Hello">>, <<"world", ".">>}

Snippet(t) == [text |-> t]

RECURSIVE SeqsUpTo(_, _)
SeqsUpTo(S, n) ==
    IF n = 0 THEN {<<>>}
    ELSE LET shorter == SeqsUpTo(S, n - 1)
         IN  shorter \cup {Append(s, x) : s \in {q \in shorter : Len(q) = n - 1}, x \in S}

\* what the upstream provider may return: up to MaxSegs segments
Transcripts == SeqsUpTo({Snippet(t) : t \in SegTexts}, MaxSegs)

SmallTranscripts == {<<>>, <<Snippet(<<"Hi">>), Snippet(<<"there">>)>>}

Exc(name, msg) == [name |-> name, msg |-> msg]

\* what the upstream call may raise: one exception class per failure kind
\* (network, rate limited, transcripts disabled, video unavailable, parse
\* failure, unknown), and one kind with a second message
FetchErrors ==
    { Exc("ConnectionError", <<"proxy", " ", "unreachable">>),
      Exc("RequestBlocked", <<"ip", " ", "blocked">>),
      Exc("TranscriptsDisabled", <<"subtitles", " ", "disabled">>),
      Exc("TranscriptsDisabled", <<"no", " ", "captions">>),
      Exc("VideoUnavailable", <<"video", " ", "unavailable">>),
      Exc("ParseError", <<"bad", " ", "xml">>),
      Exc("RuntimeError", <<>>) }

SmallFetchErrors ==
    { Exc("RequestBlocked", <<"ip", " ", "blocked">>),
      Exc("TranscriptsDisabled", <<"subtitles", " ", "disabled">>) }

\* what materializing or joining the returned transcript may raise: a
\* segment whose text is not a string
ListErrors == { Exc("TypeError", <<"expected", " ", "str">>) }

FailureKinds == {e.name : e \in FetchErrors}

VARIABLES
    env,          \* the process environment read at import
    proxy_config, \* module global: None or Some(GenericProxyConfig)
    pc,           \* per handler task: where it stands in get_transcript
    videoId,      \* per task: req.videoId
    attempt,      \* per task: the loop variable
    last_error,   \* per task: None or Some(exception)
    transcript,   \* per task: what ytt_api.fetch returned, before list()
    response,     \* per task: None or Some(HTTP response)
    calls,        \* per task: the upstream fetch calls issued, in order
    inflight,     \* per task: upstream calls issued and not yet completed
    hist,         \* per task: the outcome of each completed attempt
    served        \* last response of GET /health or GET /

vars == <<env, proxy_config, pc, videoId, attempt, last_error, transcript,
          response, calls, inflight, hist, served>>

reqvars == <<pc, videoId, attempt, last_error, transcript, response, calls,
             inflight, hist>>

(***************************************************************************)
(* Proxy configuration (module level, runs once at import)                 *)
(***************************************************************************)
\* os.getenv(name, default)
Getenv(v, default) == IF v = None THEN default ELSE v[1]

\* truth value of an optional string: None and "" are falsy
Truthy(v) == v # None /\ v[1] # ""

proxy_username == env.PROXY_USERNAME

proxy_password == env.PROXY_PASSWORD

proxy_host == Getenv(env.PROXY_HOST, "geo.iproyal.com")

proxy_port == Getenv(env.PROXY_PORT, "12321")

\* f"http://{proxy_username}:{proxy_password}@{proxy_host}:{proxy_port}"
ProxyUrl(u, p, h, port) == <<"http://", u, ":", p, "@", h, ":", port>>

GenericProxyConfig(http_url, https_url) ==
    [http_url |-> http_url, https_url |-> https_url]

\* variant: one credential is enough
ResolveProxyConfigEither(u, p, h, port) ==
    IF Truthy(u) \/ Truthy(p)
    THEN Some(GenericProxyConfig(ProxyUrl(Getenv(u, "None"), Getenv(p, "None"), h, port),
                                 ProxyUrl(Getenv(u, "None"), Getenv(p, "None"), h, port)))
    ELSE None

\* variant: a credential counts as present when it is set, even to ""
ResolveProxyConfigIfSet(u, p, h, port) ==
    IF u # None /\ p # None
    THEN Some(GenericProxyConfig(ProxyUrl(u[1], p[1], h, port),
                                 ProxyUrl(u[1], p[1], h, port)))
    ELSE None

ResolveProxyConfig(u, p, h, port) ==
    IF Truthy(u) /\ Truthy(p)
    THEN Some(GenericProxyConfig(ProxyUrl(u[1], p[1], h, port),
                                 ProxyUrl(u[1], p[1], h, port)))
    ELSE None

Environments ==
    [PROXY_USERNAME : EnvUser, PROXY_PASSWORD : EnvPass,
     PROXY_HOST : EnvHost, PROXY_PORT : EnvPort]

SmallEnvironments ==
    [PROXY_USERNAME : {None, Some("user")}, PROXY_PASSWORD : {Some("secret")},
     PROXY_HOST : {None}, PROXY_PORT : {None}]

(***************************************************************************)
(* Pure steps of get_transcript                                            *)
(***************************************************************************)
\* range(1, max_retries + 1)
AttemptRange == 1 .. max_retries

FirstAttempt == CHOOSE a \in AttemptRange : \A b \in AttemptRange : a <= b

\* variant: the loop variable advances by two
NextAttemptSkipping(a) == a + 2

\* variant: the loop variable never advances
NextAttemptStuck(a) == a

\* the loop variable of the next iteration
NextAttempt(a) == a + 1

\* variant: range(1, max_retries), one iteration short
HasNextAttemptShort(a) == a + 1 \in 1 .. (max_retries - 1)

\* the for loop has another iteration after the one with loop variable a
HasNextAttempt(a) == NextAttempt(a) \in AttemptRange

\* list(transcript)
List(t) == [i \in 1 .. Len(t) |-> t[i]]

\* variant: a separator after every text, the last one included
RECURSIVE JoinTrailing(_, _)
JoinTrailing(sep, texts) ==
    IF texts = <<>> THEN <<>>
    ELSE texts[1] \o sep \o JoinTrailing(sep, Tail(texts))

\* sep.join(texts)
RECURSIVE Join(_, _)
Join(sep, texts) ==
    IF texts = <<>> THEN <<>>
    ELSE IF Len(texts) = 1 THEN texts[1]
    ELSE texts[1] \o sep \o Join(sep, Tail(texts))

\* " ".join(snippet.text for snippet in snippets)
FullText(snippets) ==
    Join(<<" ">>, [i \in 1 .. Len(snippets) |-> snippets[i].text])

\* variant: only the first failure is kept
RecordErrorFirst(prev, e) == IF prev = None THEN Some(e) ELSE prev

\* last_error = e
RecordError(prev, e) == Some(e)

\* str(last_error) and type(last_error).__name__
StrOf(err) == IF err = None THEN <<"None">> ELSE err[1].msg

TypeName(err) == IF err = None THEN "NoneType" ELSE err[1].name

\* variant: the message alone, without the exception class
ErrorDetailNoKind(err) == StrOf(err)

\* f"{error_type}: {error_msg}"
ErrorDetail(err) == <<TypeName(err), ":", " ">> \o StrOf(err)

PlainText(text) == [status_code |-> 200, body |-> text]

\* HTTPException(status_code=500, detail=...): body holds the detail string
HTTPException(code, detail) == [status_code |-> code, body |-> detail]

Outcome(stage, err) == [stage |-> stage, err |-> err]

(***************************************************************************)
(* State after import: no request has arrived                              *)
(***************************************************************************)
InitOver(E) ==
    /\ env \in E
    /\ proxy_config =
           ResolveProxyConfig(proxy_username, proxy_password, proxy_host, proxy_port)
    /\ pc = [r \in AllReqs |-> "idle"]
    /\ videoId = [r \in AllReqs |-> None]
    /\ attempt = [r \in AllReqs |-> 0]
    /\ last_error = [r \in AllReqs |-> None]
    /\ transcript = [r \in AllReqs |-> None]
    /\ response = [r \in AllReqs |-> None]
    /\ calls = [r \in AllReqs |-> <<>>]
    /\ inflight = [r \in AllReqs |-> 0]
    /\ hist = [r \in AllReqs |-> <<>>]
    /\ served = None

Init == InitOver(Environments)

InitConc == InitOver(SmallEnvironments)

(***************************************************************************)
(* POST /transcript                                                        *)
(***************************************************************************)
\* lines 74-81: the request arrives, the loop starts
Receive(r, v) ==
    /\ pc[r] = "idle"
    /\ pc' = [pc EXCEPT ![r] = "call"]
    /\ videoId' = [videoId EXCEPT ![r] = Some(v)]
    /\ attempt' = [attempt EXCEPT ![r] = FirstAttempt]
    /\ last_error' = [last_error EXCEPT ![r] = None]
    /\ UNCHANGED <<env, proxy_config, transcript, response, calls, inflight,
                   hist, served>>

\* variant: the next call is issued without waiting for the previous one
CallFetchOverlapping(r) ==
    /\ pc[r] \in {"call", "fetching"}
    /\ Len(calls[r]) < max_retries
    /\ pc' = [pc EXCEPT ![r] = "fetching"]
    /\ calls' = [calls EXCEPT ![r] =
                    Append(@, [videoId |-> videoId[r][1], egress |-> proxy_config])]
    /\ inflight' = [inflight EXCEPT ![r] = @ + 1]
    /\ UNCHANGED <<env, proxy_config, videoId, attempt, last_error, transcript,
                   response, hist, served>>

\* variant: a retry gives up the proxy and goes out directly
CallFetchDirectOnRetry(r) ==
    /\ pc[r] = "call"
    /\ pc' = [pc EXCEPT ![r] = "fetching"]
    /\ proxy_config' = IF attempt[r] > 1 THEN None ELSE proxy_config
    /\ calls' = [calls EXCEPT ![r] =
                    Append(@, [videoId |-> videoId[r][1], egress |-> proxy_config'])]
    /\ inflight' = [inflight EXCEPT ![r] = @ + 1]
    /\ UNCHANGED <<env, videoId, attempt, last_error, transcript, response,
                   hist, served>>

\* variant: a retry asks for a normalised identifier
CallFetchOtherIdOnRetry(r) ==
    /\ pc[r] = "call"
    /\ pc' = [pc EXCEPT ![r] = "fetching"]
    /\ calls' = [calls EXCEPT ![r] =
                    Append(@, [videoId |-> IF attempt[r] > 1 THEN "abc123"
                                           ELSE videoId[r][1],
                               egress |-> proxy_config])]
    /\ inflight' = [inflight EXCEPT ![r] = @ + 1]
    /\ UNCHANGED <<env, proxy_config, videoId, attempt, last_error, transcript,
                   response, hist, served>>

\* lines 83-86: build the client from the global proxy_config, issue the call
CallFetch(r) ==
    /\ pc[r] = "call"
    /\ pc' = [pc EXCEPT ![r] = "fetching"]
    /\ calls' = [calls EXCEPT ![r] =
                    Append(@, [videoId |-> videoId[r][1], egress |-> proxy_config])]
    /\ inflight' = [inflight EXCEPT ![r] = @ + 1]
    /\ UNCHANGED <<env, proxy_config, videoId, attempt, last_error, transcript,
                   response, hist, served>>

\* variant: a permanent failure kind is surfaced at once, without retry
ExceptHandlerNoRetryPermanent(r, e) ==
    /\ last_error' = [last_error EXCEPT ![r] = Some(e)]
    /\ IF attempt[r] + 1 \in 1 .. max_retries
          /\ e.name \notin {"TranscriptsDisabled", "VideoUnavailable"}
       THEN /\ attempt' = [attempt EXCEPT ![r] = @ + 1]
            /\ pc' = [pc EXCEPT ![r] = "call"]
            /\ UNCHANGED response
       ELSE /\ pc' = [pc EXCEPT ![r] = "exhausted"]
            /\ response' = [response EXCEPT ![r] =
                               Some([status_code |-> 500,
                                     body |-> <<e.name, ":", " ">> \o e.msg])]
            /\ UNCHANGED attempt

\* variant: last_error is one module-level variable shared by all requests
ExceptHandlerSharedError(r, e) ==
    /\ last_error' = [q \in AllReqs |-> Some(e)]
    /\ IF attempt[r] + 1 \in 1 .. max_retries
       THEN /\ attempt' = [attempt EXCEPT ![r] = @ + 1]
            /\ pc' = [pc EXCEPT ![r] = "call"]
            /\ UNCHANGED response
       ELSE /\ pc' = [pc EXCEPT ![r] = "exhausted"]
            /\ response' = [response EXCEPT ![r] =
                               Some([status_code |-> 500,
                                     body |-> <<e.name, ":", " ">> \o e.msg])]
            /\ UNCHANGED attempt

\* lines 96-106: the except clause, the end of the loop and the final raise
ExceptHandler(r, e) ==
    /\ last_error' = [last_error EXCEPT ![r] = RecordError(@, e)]
    /\ IF HasNextAttempt(attempt[r])
       THEN /\ attempt' = [attempt EXCEPT ![r] = NextAttempt(@)]
            /\ pc' = [pc EXCEPT ![r] = "call"]
            /\ UNCHANGED response
       ELSE /\ pc' = [pc EXCEPT ![r] = "exhausted"]
            /\ response' = [response EXCEPT ![r] =
                               Some(HTTPException(500, ErrorDetail(last_error'[r])))]
            /\ UNCHANGED attempt

\* line 86 raises
FetchRaises(r, e) ==
    /\ pc[r] = "fetching"
    /\ inflight' = [inflight EXCEPT ![r] = @ - 1]
    /\ hist' = [hist EXCEPT ![r] = Append(@, Outcome("fetch", Some(e)))]
    /\ ExceptHandler(r, e)
    /\ UNCHANGED <<env, proxy_config, videoId, transcript, calls, served>>

\* line 86 returns a transcript
FetchReturns(r, t) ==
    /\ pc[r] = "fetching"
    /\ inflight' = [inflight EXCEPT ![r] = @ - 1]
    /\ transcript' = [transcript EXCEPT ![r] = Some(t)]
    /\ pc' = [pc EXCEPT ![r] = "list"]
    /\ UNCHANGED <<env, proxy_config, videoId, attempt, last_error, response,
                   calls, hist, served>>

\* variant: the try block ends after the fetch, so a failure of list() or
\* join() escapes the handler at once
ListRaisesUncaught(r, e) ==
    /\ pc[r] = "list"
    /\ transcript[r][1] # <<>>
    /\ hist' = [hist EXCEPT ![r] = Append(@, [stage |-> "list", err |-> Some(e)])]
    /\ transcript' = [transcript EXCEPT ![r] = None]
    /\ pc' = [pc EXCEPT ![r] = "exhausted"]
    /\ response' = [response EXCEPT ![r] =
                       Some([status_code |-> 500,
                             body |-> <<"Internal", " ", "Server", " ", "Error">>])]
    /\ UNCHANGED <<env, proxy_config, videoId, attempt, last_error, calls,
                   inflight, served>>

\* lines 88-91 raise on one of the segments
ListRaises(r, e) ==
    /\ pc[r] = "list"
    /\ transcript[r][1] # <<>>
    /\ hist' = [hist EXCEPT ![r] = Append(@, Outcome("list", Some(e)))]
    /\ transcript' = [transcript EXCEPT ![r] = None]
    /\ ExceptHandler(r, e)
    /\ UNCHANGED <<env, proxy_config, videoId, calls, inflight, served>>

\* variant: the loop goes on after a successful attempt
ListOkKeepsLooping(r) ==
    /\ pc[r] = "list"
    /\ hist' = [hist EXCEPT ![r] = Append(@, [stage |-> "ok", err |-> None])]
    /\ response' = [response EXCEPT ![r] =
                       Some([status_code |-> 200,
                             body |-> FullText(List(transcript[r][1]))])]
    /\ IF attempt[r] + 1 \in 1 .. max_retries
       THEN /\ attempt' = [attempt EXCEPT ![r] = @ + 1]
            /\ pc' = [pc EXCEPT ![r] = "call"]
       ELSE /\ pc' = [pc EXCEPT ![r] = "succeeded"]
            /\ UNCHANGED attempt
    /\ UNCHANGED <<env, proxy_config, videoId, last_error, transcript, calls,
                   inflight, served>>

\* variant: the transcript is fetched a second time to build the text
ListOkRefetch(r) ==
    /\ pc[r] = "list"
    /\ hist' = [hist EXCEPT ![r] = Append(@, [stage |-> "ok", err |-> None])]
    /\ calls' = [calls EXCEPT ![r] =
                    Append(@, [videoId |-> videoId[r][1], egress |-> proxy_config])]
    /\ response' = [response EXCEPT ![r] =
                       Some([status_code |-> 200,
                             body |-> FullText(List(transcript[r][1]))])]
    /\ pc' = [pc EXCEPT ![r] = "succeeded"]
    /\ UNCHANGED <<env, proxy_config, videoId, attempt, last_error, transcript,
                   inflight, served>>

\* variant: an empty transcript counts as a failed attempt
ListOkEmptyIsFailure(r) ==
    /\ pc[r] = "list"
    /\ IF transcript[r][1] = <<>>
       THEN /\ hist' = [hist EXCEPT ![r] =
                           Append(@, [stage |-> "list",
                                      err |-> Some(Exc("ValueError", <<"empty">>))])]
            /\ last_error' = [last_error EXCEPT ![r] =
                                 Some(Exc("ValueError", <<"empty">>))]
            /\ transcript' = [transcript EXCEPT ![r] = None]
            /\ IF attempt[r] + 1 \in 1 .. max_retries
               THEN /\ attempt' = [attempt EXCEPT ![r] = @ + 1]
                    /\ pc' = [pc EXCEPT ![r] = "call"]
                    /\ UNCHANGED response
               ELSE /\ pc' = [pc EXCEPT ![r] = "exhausted"]
                    /\ response' = [response EXCEPT ![r] =
                                       Some([status_code |-> 500,
                                             body |-> <<"ValueError", ":", " ", "empty">>])]
                    /\ UNCHANGED attempt
       ELSE /\ hist' = [hist EXCEPT ![r] = Append(@, [stage |-> "ok", err |-> None])]
            /\ response' = [response EXCEPT ![r] =
                               Some([status_code |-> 200,
                                     body |-> FullText(List(transcript[r][1]))])]
            /\ pc' = [pc EXCEPT ![r] = "succeeded"]
            /\ UNCHANGED <<attempt, last_error, transcript>>
    /\ UNCHANGED <<env, proxy_config, videoId, calls, inflight, served>>

\* lines 88-94: materialize, join, return
ListOk(r) ==
    /\ pc[r] = "list"
    /\ hist' = [hist EXCEPT ![r] = Append(@, Outcome("ok", None))]
    /\ response' = [response EXCEPT ![r] =
                       Some(PlainText(FullText(List(transcript[r][1]))))]
    /\ pc' = [pc EXCEPT ![r] = "succeeded"]
    /\ UNCHANGED <<env, proxy_config, videoId, attempt, last_error, transcript,
                   calls, inflight, served>>

(***************************************************************************)
(* GET /health and GET /                                                   *)
(***************************************************************************)
HealthPayload == [status |-> "ok", service |-> "youtube-transcript"]

RootPayload ==
    [service |-> "YouTube Transcript API",
     status |-> "running",
     endpoints |->
        [post_transcript |-> "Fetch transcript as plain text (body: {videoId: 'xxx'})",
         get_health |-> "Health check"]]

Json(path, payload) == [path |-> path, status_code |-> 200, payload |-> payload]

\* variant: the health check reports the state of the fetch pipeline
healthOfPipeline ==
    /\ served' = IF \E r \in AllReqs : pc[r] = "exhausted"
                 THEN Some([path |-> "/health", status_code |-> 503,
                            payload |-> [status |-> "down", service |-> "youtube-transcript"]])
                 ELSE Some([path |-> "/health", status_code |-> 200,
                            payload |-> [status |-> "ok", service |-> "youtube-transcript"]])
    /\ UNCHANGED <<env, proxy_config, pc, videoId, attempt, last_error,
                   transcript, response, calls, inflight, hist>>

health ==
    /\ served' = Some(Json("/health", HealthPayload))
    /\ UNCHANGED <<env, proxy_config, pc, videoId, attempt, last_error,
                   transcript, response, calls, inflight, hist>>

root ==
    /\ served' = Some(Json("/", RootPayload))
    /\ UNCHANGED <<env, proxy_config, pc, videoId, attempt, last_error,
                   transcript, response, calls, inflight, hist>>

(***************************************************************************)
(* Specifications                                                          *)
(***************************************************************************)
\* one handler task, the full range of upstream results
Next ==
    \/ \E r \in SoloReqs, v \in SoloVideoIds : Receive(r, v)
    \/ \E r \in SoloReqs : CallFetch(r)
    \/ \E r \in SoloReqs, e \in FetchErrors : FetchRaises(r, e)
    \/ \E r \in SoloReqs, t \in Transcripts : FetchReturns(r, t)
    \/ \E r \in SoloReqs, e \in ListErrors : ListRaises(r, e)
    \/ \E r \in SoloReqs : ListOk(r)
    \/ health
    \/ root

Spec == Init /\ [][Next]_vars

\* two concurrent handler tasks, a reduced range of upstream results
NextConc ==
    \/ \E r \in AllReqs, v \in VideoIds : Receive(r, v)
    \/ \E r \in AllReqs : CallFetch(r)
    \/ \E r \in AllReqs, e \in SmallFetchErrors : FetchRaises(r, e)
    \/ \E r \in AllReqs, t \in SmallTranscripts : FetchReturns(r, t)
    \/ \E r \in AllReqs, e \in ListErrors : ListRaises(r, e)
    \/ \E r \in AllReqs : ListOk(r)
    \/ health
    \/ root

SpecConc == InitConc /\ [][NextConc]_vars

\* the steps of request r once it has arrived: its own code and the
\* completion of its own upstream call
StepOf(r) ==
    \/ CallFetch(r)
    \/ \E e \in SmallFetchErrors : FetchRaises(r, e)
    \/ \E t \in SmallTranscripts : FetchReturns(r, t)
    \/ \E e \in ListErrors : ListRaises(r, e)
    \/ ListOk(r)

\* two concurrent handler tasks with one environment and one video each,
\* for the properties of progress
LiveEnvironments ==
    [PROXY_USERNAME : {Some("user")}, PROXY_PASSWORD : {Some("secret")},
     PROXY_HOST : {None}, PROXY_PORT : {None}]

InitLive == InitOver(LiveEnvironments)

VideoOf(r) == IF r = "r1" THEN "abc123" ELSE "blocked"

NextLive ==
    \/ \E r \in AllReqs : Receive(r, VideoOf(r))
    \/ \E r \in AllReqs : StepOf(r)
    \/ health
    \/ root

\* the thread of request r2 keeps being scheduled and its upstream calls
\* return; nothing is assumed of request r1, which may stay suspended in an
\* upstream call for ever
SpecLiveOne == InitLive /\ [][NextLive]_vars /\ WF_vars(StepOf("r2"))

\* every handler thread keeps being scheduled and every upstream call returns
SpecLive == InitLive /\ [][NextLive]_vars /\ \A r \in AllReqs : WF_vars(StepOf(r))

(***************************************************************************)
(* Properties                                                              *)
(***************************************************************************)
Last(q) == q[Len(q)]

Failed(o) == o.stage # "ok"

\* the attempts of r completed so far all failed
AllFailed(r) == \A i \in 1 .. Len(hist[r]) : Failed(hist[r][i])

Status(r) == IF response[r] = None THEN 0 ELSE response[r][1].status_code

\* a step of r that completes an attempt with a failure / with a success
FailureStep(r) ==
    /\ Len(hist'[r]) = Len(hist[r]) + 1
    /\ Failed(Last(hist'[r]))

SuccessStep(r) ==
    /\ Len(hist'[r]) = Len(hist[r]) + 1
    /\ ~Failed(Last(hist'[r]))

\* C1: whenever the first k attempts of a request failed and attempt k+1
\* succeeded (k in 0..max_retries-1), exactly k+1 upstream calls have been
\* issued for it, none is in flight, the request has ended and its response
\* is 200 with the text of the transcript that attempt k+1 obtained; this
\* holds in every later state, so no call follows the succeeding attempt.
C1_SuccessAfterKFailures ==
    \A r \in AllReqs : \A k \in 0 .. (max_retries - 1) :
        ( /\ Len(hist[r]) >= k + 1
          /\ \A i \in 1 .. k : Failed(hist[r][i])
          /\ ~Failed(hist[r][k + 1]) )
        => /\ Len(calls[r]) = k + 1
           /\ Len(hist[r]) = k + 1
           /\ inflight[r] = 0
           /\ pc[r] = "succeeded"
           /\ response[r] = Some([status_code |-> 200,
                                  body |-> FullText(transcript[r][1])])

\* two failed attempts, then a success on the third
C1_Witness ==
    \E r \in AllReqs :
        /\ Len(hist[r]) = 3
        /\ Failed(hist[r][1]) /\ Failed(hist[r][2]) /\ ~Failed(hist[r][3])
        /\ Status(r) = 200
        /\ Len(calls[r]) = 3

\* C2: when max_retries attempts of a request have failed, exactly
\* max_retries upstream calls were issued for it and the response is 500 whose
\* body starts with the kind of the failure of the last attempt and ends with
\* its message, whatever the earlier failures were.
C2_ExhaustedReportsLastFailure ==
    \A r \in AllReqs :
        (Len(hist[r]) = max_retries /\ AllFailed(r))
        => LET lastFailure == hist[r][max_retries].err[1]
               body == response[r][1].body
           IN  /\ Len(calls[r]) = max_retries
               /\ inflight[r] = 0
               /\ Status(r) = 500
               /\ body[1] = lastFailure.name
               /\ SubSeq(body, Len(body) - Len(lastFailure.msg) + 1, Len(body))
                      = lastFailure.msg
               /\ Len(body) = Len(lastFailure.msg) + 3

\* exhausted after three failures of which the first and the last have the
\* same kind and different messages, and the second another kind
C2_Witness ==
    \E r \in AllReqs :
        /\ Len(hist[r]) = max_retries /\ AllFailed(r)
        /\ Status(r) = 500
        /\ hist[r][1].err[1].name = hist[r][3].err[1].name
        /\ hist[r][1].err[1].msg # hist[r][3].err[1].msg
        /\ hist[r][2].err[1].name # hist[r][3].err[1].name

\* C3: a request has the 500 response (Exhausted) only if exactly
\* max_retries of its attempts have failed and none succeeded; while fewer
\* have failed no failure is surfaced; a 200 response is produced by the
\* first succeeding attempt, which is the last attempt made.
C3_ExhaustedOnlyAfterBudget ==
    \A r \in AllReqs :
        /\ (Status(r) = 500 \/ pc[r] = "exhausted")
           => /\ Len(hist[r]) = max_retries
              /\ AllFailed(r)
              /\ Status(r) = 500 /\ pc[r] = "exhausted"
        /\ (AllFailed(r) /\ Len(hist[r]) < max_retries)
           => response[r] = None
        /\ (~AllFailed(r))
           => /\ ~Failed(Last(hist[r]))
              /\ \A i \in 1 .. (Len(hist[r]) - 1) : Failed(hist[r][i])
              /\ Status(r) = 200

\* the budget is spent: three failures, 500
C3_Witness ==
    \E r \in AllReqs :
        /\ pc[r] = "exhausted"
        /\ Status(r) = 500
        /\ Len(hist[r]) = max_retries
        /\ hist[r][1].stage = "list"
        /\ hist[r][max_retries].stage = "fetch"

\* position in the joined text just before the i-th text
RECURSIVE OffsetOf(_, _)
OffsetOf(texts, i) ==
    IF i = 1 THEN 0 ELSE OffsetOf(texts, i - 1) + Len(texts[i - 1]) + 1

\* body consists of the texts in order, each one unaltered at its place, one
\* space between consecutive texts, and nothing else
SpaceJoined(body, texts) ==
    LET n == Len(texts)
    IN  /\ n = 0 => body = <<>>
        /\ n > 0 => Len(body) = OffsetOf(texts, n) + Len(texts[n])
        /\ \A i \in 1 .. n :
               SubSeq(body, OffsetOf(texts, i) + 1, OffsetOf(texts, i) + Len(texts[i]))
                   = texts[i]
        /\ \A i \in 1 .. (n - 1) :
               body[OffsetOf(texts, i) + Len(texts[i]) + 1] = " "

\* C4: a 200 response carries exactly the texts of the segments the upstream
\* returned, in upstream order, unaltered, separated by one space, with
\* nothing before the first or after the last; segments "Hello" and "world."
\* give "Hello world.".
C4_BodyIsSpaceJoinedSegments ==
    \A r \in AllReqs :
        Status(r) = 200
        => LET segs == transcript[r][1]
               texts == [i \in 1 .. Len(segs) |-> segs[i].text]
           IN  /\ SpaceJoined(response[r][1].body, texts)
               /\ texts = << <<"Hello">>, <<"world", ".">> >>
                  => response[r][1].body = <<"Hello", " ", "world", ".">>

\* the upstream returned "Hello", "world." and the response is out
C4_Witness ==
    \E r \in AllReqs :
        /\ Status(r) = 200
        /\ transcript[r] = Some(<<Snippet(<<"Hello">>), Snippet(<<"world", ".">>)>>)
        /\ response[r][1].body = <<"Hello", " ", "world", ".">>

\* C5: the body of a 500 response is the class name of the last failure, a
\* colon, a space and the message of that failure verbatim; three
\* TranscriptsDisabled failures with message "subtitles disabled" give 500
\* "TranscriptsDisabled: subtitles disabled" after exactly three calls.
C5_ExhaustedBodyFormat ==
    \A r \in AllReqs :
        /\ Status(r) = 500
           => /\ hist[r] # <<>>
              /\ LET f == Last(hist[r]).err[1]
                 IN  response[r][1].body = <<f.name, ":", " ">> \o f.msg
        /\ ( /\ Len(hist[r]) = 3
             /\ \A i \in 1 .. 3 :
                    hist[r][i].err =
                        Some(Exc("TranscriptsDisabled", <<"subtitles", " ", "disabled">>)) )
           => /\ response[r] =
                    Some([status_code |-> 500,
                          body |-> <<"TranscriptsDisabled", ":", " ",
                                     "subtitles", " ", "disabled">>])
              /\ Len(calls[r]) = 3

\* the scenario of the specification
C5_Witness ==
    \E r \in AllReqs :
        /\ videoId[r] = Some("blocked")
        /\ Len(calls[r]) = 3
        /\ Len(hist[r]) = 3
        /\ \A i \in 1 .. 3 :
               hist[r][i] = Outcome("fetch",
                   Some(Exc("TranscriptsDisabled", <<"subtitles", " ", "disabled">>)))
        /\ Status(r) = 500
        /\ response[r][1].body =
               <<"TranscriptsDisabled", ":", " ", "subtitles", " ", "disabled">>

\* C6: the descriptor is a proxy only if PROXY_USERNAME and PROXY_PASSWORD
\* are both set; if either is unset the descriptor is None (direct egress);
\* a proxy descriptor is fully populated (both URLs, each with user, password,
\* host and port); and the descriptor is determined by the environment.
C6_ProxyOnlyWithBothCredentials ==
    LET u == env.PROXY_USERNAME
        p == env.PROXY_PASSWORD
        h == IF env.PROXY_HOST = None THEN "geo.iproyal.com" ELSE env.PROXY_HOST[1]
        n == IF env.PROXY_PORT = None THEN "12321" ELSE env.PROXY_PORT[1]
    IN  /\ proxy_config # None => (u # None /\ p # None)
        /\ (u = None \/ p = None) => proxy_config = None
        /\ proxy_config # None
           => /\ proxy_config[1].http_url = <<"http://", u[1], ":", p[1], "@", h, ":", n>>
              /\ proxy_config[1].https_url = proxy_config[1].http_url
        /\ \A r \in AllReqs : \A i \in 1 .. Len(calls[r]) :
               calls[r][i].egress = proxy_config

\* user name alone: direct egress, and a call has gone out with it
C6_Witness ==
    /\ env.PROXY_USERNAME = Some("user")
    /\ env.PROXY_PASSWORD = None
    /\ proxy_config = None
    /\ \E r \in AllReqs : Len(calls[r]) > 0 /\ calls[r][1].egress = None

\* C7: in every state GET /health and GET / can be served, whatever the
\* transcript requests are doing; what they serve is 200 with the fixed
\* payload; and serving them issues no upstream call and leaves the proxy
\* descriptor and every variable of every transcript request unchanged.
C7_HealthAndRootAlwaysSucceed ==
    /\ [](ENABLED health /\ ENABLED root)
    /\ [](served \in
            {None,
             Some([path |-> "/health", status_code |-> 200,
                   payload |-> [status |-> "ok", service |-> "youtube-transcript"]]),
             Some([path |-> "/", status_code |-> 200, payload |-> RootPayload])})
    /\ [][served' # served
          => /\ served' # None
             /\ UNCHANGED <<env, proxy_config, pc, videoId, attempt, last_error,
                            transcript, response, calls, inflight, hist>>]_vars

\* the health check has answered while one request is exhausted and the
\* other has an upstream call in flight
C7_Witness ==
    /\ served # None /\ served[1].path = "/health" /\ served[1].status_code = 200
    /\ \E r, q \in AllReqs : pc[r] = "exhausted" /\ pc[q] = "fetching"

\* C8: whatever the kind of the failure, a step in which attempt n <
\* max_retries of a request fails surfaces nothing and leaves the request
\* about to issue attempt n+1, and that call can then be issued.
C8_EveryKindIsRetried ==
    /\ [][\A r \in AllReqs :
            (FailureStep(r) /\ attempt[r] < max_retries)
            => /\ pc'[r] = "call"
               /\ attempt'[r] = attempt[r] + 1
               /\ response'[r] = None]_vars
    /\ [](\A r \in AllReqs : pc[r] = "call" => ENABLED CallFetch(r))
    /\ [](\A r \in AllReqs : \A i \in 1 .. Len(hist[r]) :
            (i < max_retries /\ Failed(hist[r][i]))
            => /\ attempt[r] > i
               /\ (Len(calls[r]) = i => pc[r] = "call"))

\* attempt 3 is under way after a TranscriptsDisabled and a VideoUnavailable
\* failure
C8_Witness ==
    \E r \in AllReqs :
        /\ Len(hist[r]) = 2
        /\ hist[r][1].err[1].name = "TranscriptsDisabled"
        /\ hist[r][2].err[1].name = "VideoUnavailable"
        /\ attempt[r] = 3
        /\ pc[r] = "fetching"

\* the state of the retry state machine of request r
RetryState(r) ==
    CASE pc[r] = "idle" -> <<"NoRequest">>
      [] pc[r] \in {"call", "fetching", "list"} -> <<"Attempting", attempt[r]>>
      [] pc[r] = "succeeded" -> <<"Succeeded">>
      [] pc[r] = "exhausted" -> <<"Exhausted">>

\* C9: a request starts in Attempting(1); its state changes only from
\* Attempting(n) to Succeeded when attempt n succeeds, from Attempting(n) to
\* Attempting(n+1) when attempt n fails and n < max_retries, and from
\* Attempting(max_retries) to Exhausted when that attempt fails, and every
\* completed attempt makes one of these changes; n stays in 1..max_retries;
\* nothing of a request changes once it is Succeeded or Exhausted.
C9_RetryStateMachine ==
    /\ [](\A r \in AllReqs :
            RetryState(r)[1] = "Attempting" => attempt[r] \in 1 .. max_retries)
    /\ [][\A r \in AllReqs :
            /\ RetryState(r)' # RetryState(r)
               => \/ /\ RetryState(r) = <<"NoRequest">>
                     /\ RetryState(r)' = <<"Attempting", 1>>
                  \/ \E n \in 1 .. max_retries :
                        /\ RetryState(r) = <<"Attempting", n>>
                        /\ \/ SuccessStep(r) /\ RetryState(r)' = <<"Succeeded">>
                           \/ /\ FailureStep(r) /\ n < max_retries
                              /\ RetryState(r)' = <<"Attempting", n + 1>>
                           \/ /\ FailureStep(r) /\ n = max_retries
                              /\ RetryState(r)' = <<"Exhausted">>
            /\ (FailureStep(r) \/ SuccessStep(r))
               => RetryState(r)' # RetryState(r)
            /\ RetryState(r) \in {<<"Succeeded">>, <<"Exhausted">>}
               => UNCHANGED <<pc[r], videoId[r], attempt[r], last_error[r],
                              transcript[r], response[r], calls[r], inflight[r],
                              hist[r]>>]_vars

\* the third attempt has obtained a transcript after two failures
C9_Witness ==
    \E r \in AllReqs :
        /\ RetryState(r) = <<"Attempting", 3>>
        /\ pc[r] = "list"
        /\ Len(hist[r]) = 2

\* C10: a request never has more than one upstream call in flight, and a
\* call is issued for it only when none is in flight, every earlier call has
\* completed and every earlier attempt has failed.
C10_AttemptsAreSerial ==
    /\ [](\A r \in AllReqs :
            /\ inflight[r] \in {0, 1}
            /\ inflight[r] = 1 <=> pc[r] = "fetching")
    /\ [][\A r \in AllReqs :
            Len(calls'[r]) > Len(calls[r])
            => /\ Len(calls'[r]) = Len(calls[r]) + 1
               /\ inflight[r] = 0
               /\ Len(hist[r]) = Len(calls[r])
               /\ AllFailed(r)
               /\ transcript[r] = None]_vars

\* both requests have a call in flight, one of them its third
C10_Witness ==
    \E r, q \in AllReqs :
        /\ r # q
        /\ inflight[r] = 1 /\ Len(calls[r]) = 3 /\ Len(hist[r]) = 2
        /\ inflight[q] = 1

\* the variables of request r
ReqState(r) ==
    <<pc[r], videoId[r], attempt[r], last_error[r], transcript[r], response[r],
      calls[r], inflight[r], hist[r]>>

\* the failures among the completed attempts of r, in order
FailuresOf(r) == SelectSeq(hist[r], Failed)

Min(a, b) == IF a <= b THEN a ELSE b

\* C11: every step changes the variables of at most one request; the
\* attempt counter, the last recorded failure and the response of a request
\* are determined by the outcomes of its own attempts; what a request can do
\* next depends on its own position only, so a request suspended in an
\* upstream call blocks no other request; and a request whose own calls
\* return reaches its response even if the other request stays suspended.
C11_RequestsAreIndependent ==
    /\ [][\A r, q \in AllReqs :
            (r # q /\ ReqState(r)' # ReqState(r)) => ReqState(q)' = ReqState(q)]_vars
    /\ [](\A r \in AllReqs :
            pc[r] # "idle"
            => /\ attempt[r] = Min(Len(FailuresOf(r)) + 1, max_retries)
               /\ last_error[r] =
                      IF FailuresOf(r) = <<>> THEN None ELSE Last(FailuresOf(r)).err
               /\ response[r] =
                      IF ~AllFailed(r)
                      THEN Some([status_code |-> 200, body |-> FullText(transcript[r][1])])
                      ELSE IF Len(hist[r]) = max_retries
                      THEN Some([status_code |-> 500,
                                 body |-> <<Last(hist[r]).err[1].name, ":", " ">>
                                              \o Last(hist[r]).err[1].msg])
                      ELSE None)
    /\ [](\A r \in AllReqs :
            /\ pc[r] = "idle" => ENABLED Receive(r, VideoOf(r))
            /\ pc[r] = "call" => ENABLED CallFetch(r)
            /\ pc[r] = "fetching" => ENABLED FetchReturns(r, <<>>)
            /\ pc[r] = "list" => ENABLED ListOk(r))
    /\ (pc["r2"] # "idle") ~> (response["r2"] # None)

\* r2 has its response, obtained on its second attempt, while r1 is still
\* suspended in its first upstream call and has recorded nothing
C11_Witness ==
    /\ pc["r1"] = "fetching" /\ Len(calls["r1"]) = 1 /\ last_error["r1"] = None
    /\ Len(hist["r2"]) = 2 /\ Status("r2") = 200
    /\ last_error["r2"] # None

\* C12: the egress descriptor and the environment it was built from never
\* change after startup, and every upstream call of every request, the
\* first and the retries, went out with that one descriptor.
C12_EgressDescriptorIsFixed ==
    /\ [][proxy_config' = proxy_config /\ env' = env]_vars
    /\ [](\A r \in AllReqs : \A i \in 1 .. Len(calls[r]) :
            /\ calls[r][i].egress = proxy_config
            /\ calls[r][i].egress = calls[r][1].egress)
    /\ [](\A r, q \in AllReqs :
            (calls[r] # <<>> /\ calls[q] # <<>>)
            => calls[r][1].egress = calls[q][Len(calls[q])].egress)

\* a proxy is configured, one request has made its three calls and the other
\* its second
C12_Witness ==
    /\ proxy_config # None
    /\ Len(calls["r1"]) = 3
    /\ Len(calls["r2"]) = 2
    /\ calls["r2"][2].egress = calls["r1"][3].egress
    /\ calls["r2"][2].egress # None

\* C13: if every upstream call returns and the handler keeps running, a
\* request that has arrived ends as Succeeded or Exhausted with a response;
\* it never issues more than max_retries upstream calls and it has a
\* response exactly when it has ended.
C13_EveryRequestTerminates ==
    /\ \A r \in AllReqs :
          (pc[r] # "idle") ~> (pc[r] \in {"succeeded", "exhausted"} /\ response[r] # None)
    /\ [](\A r \in AllReqs :
            /\ Len(calls[r]) <= max_retries
            /\ Len(hist[r]) <= max_retries
            /\ pc[r] \in {"succeeded", "exhausted"} <=> response[r] # None)

\* both requests have ended, one with 200 and one with 500 after three calls
C13_Witness ==
    /\ pc["r1"] = "exhausted" /\ Len(calls["r1"]) = max_retries
    /\ pc["r2"] = "succeeded"
    /\ response["r1"] # None /\ response["r2"] # None

\* the attempts of r started so far
AttemptsStarted(r) ==
    IF pc[r] = "idle" THEN 0
    ELSE IF pc[r] = "call" THEN attempt[r] - 1
    ELSE attempt[r]

\* C14: the number of upstream calls of a request equals the number of
\* attempts it has started; an attempt issues its one call before it
\* completes and the step that materializes and joins the segments, or fails
\* doing so, issues none.
C14_OneCallPerAttempt ==
    /\ [](\A r \in AllReqs :
            /\ Len(calls[r]) = AttemptsStarted(r)
            /\ Len(calls[r]) =
                   Len(hist[r]) + (IF pc[r] \in {"fetching", "list"} THEN 1 ELSE 0))
    /\ [][\A r \in AllReqs :
            /\ Len(hist'[r]) > Len(hist[r])
               => /\ calls'[r] = calls[r]
                  /\ Len(calls[r]) = Len(hist[r]) + 1
            /\ pc[r] = "list" => calls'[r] = calls[r]]_vars

\* the third attempt has succeeded with two segments after three calls
C14_Witness ==
    \E r \in AllReqs :
        /\ Status(r) = 200
        /\ Len(transcript[r][1]) = 2
        /\ attempt[r] = 3
        /\ Len(calls[r]) = 3

\* C15: every upstream call of a request carries the videoId the request
\* arrived with, and the videoId of a request never changes.
C15_VideoIdPassedVerbatim ==
    /\ [](\A r \in AllReqs : \A i \in 1 .. Len(calls[r]) :
            /\ videoId[r] # None
            /\ calls[r][i].videoId = videoId[r][1])
    /\ [][\A r \in AllReqs : videoId[r] # None => videoId'[r] = videoId[r]]_vars

\* a request for "blocked" has made three calls, another for "abc123" two
C15_Witness ==
    \E r, q \in AllReqs :
        /\ videoId[r] = Some("blocked") /\ Len(calls[r]) = 3
        /\ calls[r][3].videoId = "blocked"
        /\ videoId[q] = Some("abc123") /\ Len(calls[q]) = 2

\* a step of r in which materializing or joining a returned transcript fails
ListFailureStep(r) ==
    /\ FailureStep(r)
    /\ Last(hist'[r]).stage = "list"

\* C16: a failure raised after the upstream call has returned is handled as
\* a failure of the call is: it becomes the last recorded failure; before
\* the last attempt nothing is surfaced and the next attempt follows; at the
\* last attempt it is the failure reported with 500; so a call that returned
\* without error can be followed by another call.
C16_ListFailureIsAnAttemptFailure ==
    /\ [][\A r \in AllReqs :
            ListFailureStep(r)
            => /\ pc[r] = "list" /\ transcript[r] # None
               /\ last_error'[r] = Last(hist'[r]).err
               /\ attempt[r] < max_retries
                  => /\ pc'[r] = "call"
                     /\ attempt'[r] = attempt[r] + 1
                     /\ response'[r] = None
               /\ attempt[r] = max_retries
                  => /\ pc'[r] = "exhausted"
                     /\ response'[r] =
                            Some([status_code |-> 500,
                                  body |-> <<Last(hist'[r]).err[1].name, ":", " ">>
                                               \o Last(hist'[r]).err[1].msg])]_vars
    /\ [](\A r \in AllReqs :
            (pc[r] = "list" /\ transcript[r] # None /\ transcript[r][1] # <<>>)
            => \A e \in ListErrors : ENABLED ListRaises(r, e))
    /\ [](\A r \in AllReqs : \A i \in 1 .. Len(hist[r]) :
            (hist[r][i].stage = "list" /\ i < max_retries)
            => (pc[r] = "call" /\ attempt[r] = i + 1) \/ Len(calls[r]) > i)

\* the first call returned a transcript, joining it failed, and the second
\* call is in flight
C16_Witness ==
    \E r \in AllReqs :
        /\ Len(hist[r]) = 1
        /\ hist[r][1].stage = "list"
        /\ last_error[r] = hist[r][1].err
        /\ Len(calls[r]) = 2
        /\ pc[r] = "fetching"

\* C17: when the upstream returns a transcript of zero segments, the only
\* thing the request does next is to end with 200 and an empty body: no
\* failure is recorded, no further call is issued, and that step is possible.
C17_EmptyTranscriptSucceeds ==
    /\ [][\A r \in AllReqs :
            (pc[r] = "list" /\ transcript[r] = Some(<<>>) /\ ReqState(r)' # ReqState(r))
            => /\ response'[r] = Some([status_code |-> 200, body |-> <<>>])
               /\ pc'[r] = "succeeded"
               /\ SuccessStep(r)
               /\ calls'[r] = calls[r]
               /\ last_error'[r] = last_error[r]
               /\ attempt'[r] = attempt[r]]_vars
    /\ [](\A r \in AllReqs :
            (pc[r] = "list" /\ transcript[r] = Some(<<>>)) => ENABLED ListOk(r))
    /\ [](\A r \in AllReqs :
            transcript[r] = Some(<<>>)
            => \/ pc[r] = "list" /\ response[r] = None
               \/ /\ pc[r] = "succeeded"
                  /\ response[r] = Some([status_code |-> 200, body |-> <<>>])
                  /\ Len(calls[r]) = Len(hist[r]))

\* the first call returned no segment and the response is 200, empty
C17_Witness ==
    \E r \in AllReqs :
        /\ transcript[r] = Some(<<>>)
        /\ Len(calls[r]) = 1
        /\ response[r] = Some([status_code |-> 200, body |-> <<>>])
        /\ pc[r] = "succeeded"

\* C18: the descriptor is a proxy exactly when PROXY_USERNAME and
\* PROXY_PASSWORD are both set to a non-empty string; a credential set to ""
\* gives direct egress like an unset one; PROXY_HOST and PROXY_PORT, unset,
\* set or empty, do not enter the decision.
C18_EmptyCredentialIsAbsent ==
    LET absent(v) == v = None \/ v = Some("")
    IN  /\ (absent(env.PROXY_USERNAME) \/ absent(env.PROXY_PASSWORD))
           => proxy_config = None
        /\ (~absent(env.PROXY_USERNAME) /\ ~absent(env.PROXY_PASSWORD))
           => proxy_config # None
        /\ \A h \in EnvHost, n \in EnvPort :
               (proxy_config = None) <=>
                   (ResolveProxyConfig(env.PROXY_USERNAME, env.PROXY_PASSWORD,
                                       Getenv(h, "geo.iproyal.com"),
                                       Getenv(n, "12321")) = None)

\* user name set, password set to "", port set to "": direct egress in use
C18_Witness ==
    /\ env.PROXY_USERNAME = Some("user")
    /\ env.PROXY_PASSWORD = Some("")
    /\ env.PROXY_PORT = Some("")
    /\ env.PROXY_HOST = Some("proxy.example")
    /\ proxy_config = None
    /\ \E r \in AllReqs : Len(calls[r]) = 2 /\ calls[r][2].egress = None

====
